---- MODULE Spec2Model ----
(***************************************************************************)
(* The chat controller of src/src/components/FinancialChat.tsx: the        *)
(* conversation (messages), the input box (inputValue), the typing flag    *)
(* (isTyping), the delayed replies scheduled with setTimeout (timers) and  *)
(* the wall clock read by Date.now (now).                                  *)
(*                                                                         *)
(* A text is a sequence of pieces.  Text the program inspects character by *)
(* character (what the user types) has one piece per character; a canned   *)
(* text, which it only stores and copies, is a single piece.  Ids, month   *)
(* and category names are strings.                                         *)
(***************************************************************************)
EXTENDS Integers, Sequences, FiniteSets, TLC

VARIABLES messages, inputValue, isTyping, timers, now,
          accepted, answers, rejected

vars == <<messages, inputValue, isTyping, timers, now,
          accepted, answers, rejected>>

(***************************************************************************)
(* Bounds of the model.                                                    *)
(***************************************************************************)
\* Date.now() when the component mounts.
StartTime == 100000
\* The clock is read every TickStep milliseconds ...
TickStep == 750
\* ... MaxTicks times after the mount.
MaxTicks == 2
\* Accepted submissions in one run of the chat.
MaxSubmits == 2
\* Fragments concatenated into one utterance of the classifier's runs.
MaxFrags == 2

(***************************************************************************)
(* Program constants.                                                      *)
(***************************************************************************)
\* setTimeout(..., 1500)
Delay == 1500
\* new Date(Date.now() - 5000), the greeting's timestamp
GreetingAge == 5000

(***************************************************************************)
(* String.prototype.toLowerCase, includes and trim, on ASCII text.         *)
(***************************************************************************)
UpperCaseLetters ==
  <<"A","B","C","D","E","F","G","H","I","J","K","L","M",
    "N","O","P","Q","R","S","T","U","V","W","X","Y","Z">>

LowerCaseLetters ==
  <<"a","b","c","d","e","f","g","h","i","j","k","l","m",
    "n","o","p","q","r","s","t","u","v","w","x","y","z">>

\* The lower-case letter of each upper-case letter.
LowerCaseOf ==
  [c \in {UpperCaseLetters[k] : k \in 1..Len(UpperCaseLetters)} |->
     LowerCaseLetters[CHOOSE k \in 1..Len(UpperCaseLetters) :
                        UpperCaseLetters[k] = c]]

LowerChar(c) == IF c \in DOMAIN LowerCaseOf THEN LowerCaseOf[c] ELSE c

ToLowerCase(s) == [i \in 1..Len(s) |-> LowerChar(s[i])]

\* sub occurs in s, starting at some place i.
Includes(s, sub) ==
  \E i \in 1..(Len(s) - Len(sub) + 1) :
    \A j \in 1..Len(sub) : s[i + j - 1] = sub[j]

WhiteSpace == {" ", "\t", "\n", "\r"}

RECURSIVE TrimStart(_)
TrimStart(s) ==
  IF s # << >> /\ Head(s) \in WhiteSpace THEN TrimStart(Tail(s)) ELSE s

RECURSIVE TrimEnd(_)
TrimEnd(s) ==
  IF s # << >> /\ s[Len(s)] \in WhiteSpace
  THEN TrimEnd(SubSeq(s, 1, Len(s) - 1))
  ELSE s

Trim(s) == TrimEnd(TrimStart(s))

(***************************************************************************)
(* Number.prototype.toString: the decimal digits of a clock reading.       *)
(***************************************************************************)
Digits == <<"0","1","2","3","4","5","6","7","8","9">>

RECURSIVE NumberToString(_)
NumberToString(n) ==
  IF n < 10 THEN Digits[n + 1]
  ELSE NumberToString(n \div 10) \o Digits[(n % 10) + 1]

(***************************************************************************)
(* The keywords of the classifier and the texts of the quick actions.      *)
(***************************************************************************)
KwPortfolio ==
  <<"p","o","r","t","f","o","l","i","o">>
KwPerformance ==
  <<"p","e","r","f","o","r","m","a","n","c","e">>
KwAllocation ==
  <<"a","l","l","o","c","a","t","i","o","n">>
KwDiversif ==
  <<"d","i","v","e","r","s","i","f">>
KwRetirement ==
  <<"r","e","t","i","r","e","m","e","n","t">>
KwGoal ==
  <<"g","o","a","l">>
QuickPortfolio ==
  <<"S","h","o","w"," ","m","e"," ","m","y"," ","p","o","r","t","f","o","l",
    "i","o"," ","p","e","r","f","o","r","m","a","n","c","e">>
QuickAllocation ==
  <<"R","e","v","i","e","w"," ","m","y"," ","a","s","s","e","t"," ","a","l",
    "l","o","c","a","t","i","o","n">>
QuickRetirement ==
  <<"A","m"," ","I"," ","o","n"," ","t","r","a","c","k"," ","f","o","r"," ",
    "r","e","t","i","r","e","m","e","n","t","?">>

(***************************************************************************)
(* What the user can put into the input box.  In a run of the chat: the    *)
(* texts of the quick actions and a few typed texts.  In a run of the      *)
(* classifier: any one utterance made of up to MaxFrags fragments          *)
(* (keywords in several letter cases, a keyword cut short, noise, white    *)
(* space).                                                                 *)
(***************************************************************************)
TypedNoise ==
  <<"a","s","d","f","1","2","3">>
TypedBlank ==
  <<" ","\t">>

QuickActions == {QuickPortfolio, QuickAllocation, QuickRetirement}

TypedInputs == {<< >>, TypedBlank}

FragPERFORMANCE ==
  <<"P","E","R","F","O","R","M","A","N","C","E">>
FragAllocation ==
  <<"A","l","l","o","c","a","t","i","o","n">>
FragGoal ==
  <<"G","o","A","l">>
FragPortfoli ==
  <<"p","o","r","t","f","o","l","i">>
FragO ==
  <<"o">>
FragSpace ==
  <<" ">>

Fragments ==
  {KwPortfolio, FragPERFORMANCE, FragAllocation, KwDiversif, KwRetirement,
   FragGoal, TypedNoise, FragSpace, FragPortfoli, FragO}

RECURSIVE Concats(_)
Concats(n) ==
  IF n = 0 THEN {<< >>}
  ELSE {s \o f : s \in Concats(n - 1), f \in Fragments}

Utterances ==
  UNION {Concats(n) : n \in 0..MaxFrags} \cup QuickActions \cup {TypedBlank}

Inputs == Utterances \cup QuickActions \cup TypedInputs

(***************************************************************************)
(* The canned replies and chart payloads of the delayed callback.          *)
(***************************************************************************)
PerformanceResponse ==
  << "Based on your current portfolio allocation, here's your performance over the last 12 months. Your balanced approach with 70% growth assets and 30% defensive assets has yielded a solid 8.2% return. Consider increasing your international equity exposure for better diversification." >>

AllocationResponse ==
  << "Your current asset allocation shows room for improvement. Here's your breakdown and my recommended adjustments for better long-term growth while managing risk appropriately for your age profile." >>

RetirementResponse ==
  << "Based on your retirement goal of $1.2M by age 65, you're currently on track but could accelerate your progress. With your current contribution rate and expected returns, you'll reach approximately $1.05M. I recommend increasing your contributions by $200/month to meet your target." >>

FallbackResponse ==
  << "That's a great question! I can help you with portfolio optimization, retirement planning, investment explanations, and risk assessment. Feel free to ask about your superannuation performance, asset allocation, or any financial terms you'd like me to explain." >>

LineChartData ==
  [type |-> "line",
   data |-> << [month |-> "Jan", value |-> 95000],
               [month |-> "Feb", value |-> 97200],
               [month |-> "Mar", value |-> 96800],
               [month |-> "Apr", value |-> 99100],
               [month |-> "May", value |-> 101500],
               [month |-> "Jun", value |-> 103200],
               [month |-> "Jul", value |-> 105800],
               [month |-> "Aug", value |-> 104200],
               [month |-> "Sep", value |-> 107600],
               [month |-> "Oct", value |-> 109200],
               [month |-> "Nov", value |-> 112400],
               [month |-> "Dec", value |-> 115800] >>]

PieChartData ==
  [type |-> "pie",
   data |-> << [name |-> "Australian Shares", value |-> 35, recommended |-> 40],
               [name |-> "International Shares", value |-> 25, recommended |-> 30],
               [name |-> "Property", value |-> 15, recommended |-> 10],
               [name |-> "Bonds", value |-> 20, recommended |-> 15],
               [name |-> "Cash", value |-> 5, recommended |-> 5] >>]

\* let chartData = null
Null == [type |-> "null"]

(***************************************************************************)
(* The keyword cascade of the delayed callback: its locals response,       *)
(* hasChart and chartData when the if/else chain is done.                  *)
(***************************************************************************)
\* Faulty variant: the utterance is not lower-cased before the search.
IsPerformanceCaseSensitive(userMessage) ==
  \/ Includes(userMessage, KwPortfolio)
  \/ Includes(userMessage, KwPerformance)

IsPerformance(userMessage) ==
  \/ Includes(ToLowerCase(userMessage), KwPortfolio)
  \/ Includes(ToLowerCase(userMessage), KwPerformance)

\* Faulty variant: the second keyword of the group is forgotten.
IsAllocationOnly(userMessage) ==
  Includes(ToLowerCase(userMessage), KwAllocation)

IsAllocation(userMessage) ==
  \/ Includes(ToLowerCase(userMessage), KwAllocation)
  \/ Includes(ToLowerCase(userMessage), KwDiversif)

IsRetirement(userMessage) ==
  \/ Includes(ToLowerCase(userMessage), KwRetirement)
  \/ Includes(ToLowerCase(userMessage), KwGoal)

\* Faulty variant: the allocation branch is tested before the performance
\* branch.
ClassifyAllocationFirst(userMessage) ==
  IF IsAllocation(userMessage)
  THEN [response |-> AllocationResponse, hasChart |-> TRUE,
        chartData |-> PieChartData]
  ELSE IF IsPerformance(userMessage)
  THEN [response |-> PerformanceResponse, hasChart |-> TRUE,
        chartData |-> LineChartData]
  ELSE IF IsRetirement(userMessage)
  THEN [response |-> RetirementResponse, hasChart |-> FALSE,
        chartData |-> Null]
  ELSE [response |-> FallbackResponse, hasChart |-> FALSE,
        chartData |-> Null]

Classify(userMessage) ==
  IF IsPerformance(userMessage)
  THEN [response |-> PerformanceResponse, hasChart |-> TRUE,
        chartData |-> LineChartData]
  ELSE IF IsAllocation(userMessage)
  THEN [response |-> AllocationResponse, hasChart |-> TRUE,
        chartData |-> PieChartData]
  ELSE IF IsRetirement(userMessage)
  THEN [response |-> RetirementResponse, hasChart |-> FALSE,
        chartData |-> Null]
  ELSE [response |-> FallbackResponse, hasChart |-> FALSE,
        chartData |-> Null]

(***************************************************************************)
(* Messages.  A user message has no hasChart and no chartData field.       *)
(***************************************************************************)
GreetingContent ==
  << "Hello! I'm your AI superannuation advisor. I can help you optimize your retirement investments, explain financial terms, and provide personalized recommendations based on your goals. What would you like to know today?" >>

initialMessages ==
  << [id |-> "1", content |-> GreetingContent, isUser |-> FALSE,
      timestamp |-> StartTime - GreetingAge] >>

\* Faulty variant: the author flag of a user message is wrong.
UserMessageAsAssistant(text, t) ==
  [id |-> NumberToString(t), content |-> text, isUser |-> FALSE,
   timestamp |-> t]

UserMessage(text, t) ==
  [id |-> NumberToString(t), content |-> text, isUser |-> TRUE, timestamp |-> t]

\* The outcome of the cascade for every text a run can submit, worked out
\* once.
Classified == [userMessage \in Inputs |-> Classify(userMessage)]

\* Faulty variant: the callback classifies what the input box holds when it
\* runs, not the utterance it was scheduled with.
AiMessageFromInput(userMessage, t) ==
  LET r == Classified[inputValue]
  IN  [id |-> NumberToString(t), content |-> r.response, isUser |-> FALSE,
       timestamp |-> t, hasChart |-> r.hasChart, chartData |-> r.chartData]

AiMessage(userMessage, t) ==
  LET r == Classified[userMessage]
  IN  [id |-> NumberToString(t), content |-> r.response, isUser |-> FALSE,
       timestamp |-> t, hasChart |-> r.hasChart, chartData |-> r.chartData]

\* Faulty variant: the new message overwrites the last one.
ReplaceLast(prev, message) == [prev EXCEPT ![Len(prev)] = message]

\* Faulty variant: the new message is put in front, [message, ...prev].
PrependMessage(prev, message) == <<message>> \o prev

\* setMessages(prev => [...prev, message])
AppendMessage(prev, message) == Append(prev, message)

\* Faulty variant: the input is not trimmed, if (!inputValue) return;
IsEmpty(text) == text = << >>

\* if (!inputValue.trim()) return;
IsBlank(text) == Trim(text) = << >>

\* Faulty variant: scheduling a reply cancels the replies still waiting.
ScheduleTimerCancelling(pending, timer) == <<timer>>

\* setTimeout(callback, 1500): one more callback waits, after those waiting.
ScheduleTimer(pending, timer) == Append(pending, timer)

\* How many delayed callbacks have run.
delivered == Len(answers)

(***************************************************************************)

(***************************************************************************)
(* The state after the component is mounted.                               *)
(*   timers    the callbacks scheduled with setTimeout and not yet run,    *)
(*             oldest first, each with the utterance it captured, the      *)
(*             clock reading from which it may run and, as history, the    *)
(*             place in the conversation of the user message submitted     *)
(*             with it (request)                                           *)
(*   accepted  how many submissions passed the blank check    (history)    *)
(*   answers   for each delayed callback that has run, the place in the    *)
(*             conversation of the user message whose submission scheduled *)
(*             it (request) and of the message it appended (reply)         *)
(*                                                            (history)    *)
(*   rejected  whether the handler that ran last was a submission that     *)
(*             did not pass the blank check                   (history)    *)
(***************************************************************************)
Init ==
  /\ messages = initialMessages
  /\ inputValue = << >>
  /\ isTyping = FALSE
  /\ timers = << >>
  /\ now = StartTime
  /\ accepted = 0
  /\ answers = << >>
  /\ rejected = FALSE

\* onChange={(e) => setInputValue(e.target.value)}
OnChange ==
  \E v \in TypedInputs :
    /\ inputValue' = v
    /\ rejected' = FALSE
    /\ UNCHANGED <<messages, isTyping, timers, now, accepted, answers>>

\* onClick={() => setInputValue("...")} of the three quick-action buttons
QuickAction ==
  \E v \in QuickActions :
    /\ inputValue' = v
    /\ rejected' = FALSE
    /\ UNCHANGED <<messages, isTyping, timers, now, accepted, answers>>

\* The last clock reading at which the user still does something.
LastReading == StartTime + MaxTicks * TickStep

\* The model stops accepting when its bounds are used up: MaxSubmits
\* submissions, or the last clock reading is behind.
WithinBounds ==
  /\ accepted < MaxSubmits
  /\ now <= LastReading

\* handleSendMessage, with the simulateAIResponse it calls up to setTimeout.
HandleSendMessage ==
  /\ rejected' = IsBlank(inputValue)
  /\ IF IsBlank(inputValue)
     THEN UNCHANGED <<messages, inputValue, isTyping, timers, now,
                      accepted, answers>>
     ELSE /\ WithinBounds
          /\ messages' = AppendMessage(messages, UserMessage(inputValue, now))
          /\ isTyping' = TRUE
          /\ timers' = ScheduleTimer(timers, [userMessage |-> inputValue,
                                              due |-> now + Delay,
                                              request |-> Len(messages')])
          /\ inputValue' = << >>
          /\ accepted' = accepted + 1
          /\ UNCHANGED <<now, answers>>

\* handleKeyPress: Enter without Shift submits whatever the box holds.
HandleKeyPress == HandleSendMessage

\* The Send button, disabled={!inputValue.trim()}.
ClickSend == ~IsBlank(inputValue) /\ HandleSendMessage

\* The callback given to setTimeout: timers of equal delay run in the order
\* they were scheduled, none before its delay has passed.
TimerCallback ==
  /\ timers # << >>
  /\ now >= Head(timers).due
  /\ timers' = Tail(timers)
  /\ messages' = AppendMessage(messages, AiMessage(Head(timers).userMessage, now))
  /\ isTyping' = FALSE
  /\ answers' = Append(answers, [request |-> Head(timers).request,
                                  reply |-> Len(messages')])
  /\ rejected' = FALSE
  /\ UNCHANGED <<inputValue, now, accepted>>

\* Time passes: up to the last reading, and after it until the pending
\* replies are due.
Tick ==
  /\ \/ now + TickStep <= LastReading
     \/ timers # << >> /\ now < Head(timers).due
  /\ now' = now + TickStep
  /\ rejected' = FALSE
  /\ UNCHANGED <<messages, inputValue, isTyping, timers, accepted, answers>>

Next ==
  \/ OnChange
  \/ QuickAction
  \/ HandleKeyPress
  \/ ClickSend
  \/ TimerCallback
  \/ Tick

Spec == Init /\ [][Next]_vars

(***************************************************************************)
(* Runs of the classifier: the box holds any one utterance made of up to   *)
(* MaxFrags fragments (keywords in several letter cases, a keyword cut     *)
(* short, noise, white space), which is then submitted and answered.       *)
(***************************************************************************)
InitClassifier ==
  /\ messages = initialMessages
  /\ inputValue \in Utterances
  /\ isTyping = FALSE
  /\ timers = << >>
  /\ now = StartTime
  /\ accepted = 0
  /\ answers = << >>
  /\ rejected = FALSE

NextClassifier ==
  \/ HandleKeyPress
  \/ ClickSend
  \/ TimerCallback
  \/ Tick

ClassifierSpec == InitClassifier /\ [][NextClassifier]_vars

(***************************************************************************)
(* Vocabulary of the properties.                                           *)
(***************************************************************************)
\* The same letter, in either case.
SameLetter(a, b) ==
  \/ a = b
  \/ \E k \in 1..Len(UpperCaseLetters) :
       {a, b} = {UpperCaseLetters[k], LowerCaseLetters[k]}

\* The utterance contains the keyword, in any letter case.
Contains(utterance, keyword) ==
  \E i \in 0..(Len(utterance) - Len(keyword)) :
    \A j \in 1..Len(keyword) : SameLetter(utterance[i + j], keyword[j])

MentionsPerformance(u) == Contains(u, KwPortfolio) \/ Contains(u, KwPerformance)
MentionsAllocation(u) == Contains(u, KwAllocation) \/ Contains(u, KwDiversif)
MentionsRetirement(u) == Contains(u, KwRetirement) \/ Contains(u, KwGoal)

\* The replies in the conversation, and the utterance each one follows (in a
\* run of the classifier a reply comes right after the utterance it answers).
Replies == {i \in 2..Len(messages) : ~messages[i].isUser}
UtteranceOf(i) == messages[i - 1].content

IsPerformanceReply(m) ==
  m.content = PerformanceResponse /\ m.hasChart = TRUE
  /\ m.chartData.type = "line"
IsAllocationReply(m) ==
  m.content = AllocationResponse /\ m.hasChart = TRUE
  /\ m.chartData.type = "pie"
IsRetirementReply(m) ==
  m.content = RetirementResponse /\ m.hasChart = FALSE /\ m.chartData = Null
IsFallbackReply(m) ==
  m.content = FallbackResponse /\ m.hasChart = FALSE /\ m.chartData = Null

RECURSIVE SumOfValues(_)
SumOfValues(points) ==
  IF points = << >> THEN 0
  ELSE Head(points).value + SumOfValues(Tail(points))

MonthsOfYear ==
  <<"Jan","Feb","Mar","Apr","May","Jun","Jul","Aug","Sep","Oct","Nov","Dec">>

(***************************************************************************)
(* C1.  The reply to an utterance depends on the utterance alone and is    *)
(* picked by the first keyword group it mentions, in any letter case, in   *)
(* the order performance, allocation, retirement, fallback: performance    *)
(* reply with a line chart, allocation reply with a pie chart, retirement  *)
(* reply without chart, fallback reply without chart.  "Am I on track for  *)
(* retirement?" gets the retirement reply and "asdf123" the fallback.      *)
(***************************************************************************)
C1_FirstMatchWins ==
  \A i \in Replies :
    LET u == UtteranceOf(i)
        m == messages[i]
    IN  /\ messages[i - 1].isUser
        /\ IF MentionsPerformance(u)
             THEN IsPerformanceReply(m) /\ m.chartData = LineChartData
           ELSE IF MentionsAllocation(u)
             THEN IsAllocationReply(m) /\ m.chartData = PieChartData
           ELSE IF MentionsRetirement(u) THEN IsRetirementReply(m)
           ELSE IsFallbackReply(m)
        /\ (u = QuickRetirement => IsRetirementReply(m))
        /\ (u = TypedNoise => IsFallbackReply(m))

\* An utterance that mentions two groups, the later group first in the
\* text and the earlier one in upper case, is answered by the earlier group.
C1_Witness ==
  \E i \in Replies :
    /\ UtteranceOf(i) = FragGoal \o FragPERFORMANCE
    /\ IsPerformanceReply(messages[i])

(***************************************************************************)
(* C2, as stated.  Every utterance that mentions "allocation" or           *)
(* "diversif" gets the allocation reply with a pie chart of exactly 5      *)
(* categories whose values sum to 100, also when it mentions "portfolio"   *)
(* or "performance" as well.                                               *)
(***************************************************************************)
C2_AllocationAlways ==
  \A i \in Replies :
    MentionsAllocation(UtteranceOf(i)) =>
      /\ IsAllocationReply(messages[i])
      /\ Len(messages[i].chartData.data) = 5
      /\ SumOfValues(messages[i].chartData.data) = 100

(***************************************************************************)
(* C2, amended.  Every utterance that mentions "allocation" or "diversif"  *)
(* and mentions neither "portfolio" nor "performance" gets the allocation  *)
(* reply with a pie chart of exactly 5 categories whose values sum to 100. *)
(***************************************************************************)
C2_AllocationUnlessPerformance ==
  \A i \in Replies :
    (MentionsAllocation(UtteranceOf(i)) /\ ~MentionsPerformance(UtteranceOf(i))) =>
      /\ IsAllocationReply(messages[i])
      /\ Len(messages[i].chartData.data) = 5
      /\ SumOfValues(messages[i].chartData.data) = 100

C2_Witness ==
  \E i \in Replies :
    /\ UtteranceOf(i) = FragAllocation \o FragGoal
    /\ IsAllocationReply(messages[i])
    /\ SumOfValues(messages[i].chartData.data) = 100

(***************************************************************************)
(* C3.  Every utterance that mentions "portfolio" or "performance", in any *)
(* letter case, gets the performance reply with hasChart true and a line   *)
(* chart of exactly 12 points, Jan to Dec in that order.                   *)
(***************************************************************************)
C3_PerformanceLineChart ==
  \A i \in Replies :
    MentionsPerformance(UtteranceOf(i)) =>
      /\ IsPerformanceReply(messages[i])
      /\ Len(messages[i].chartData.data) = 12
      /\ \A k \in 1..12 : messages[i].chartData.data[k].month = MonthsOfYear[k]

C3_Witness ==
  \E i \in Replies :
    /\ UtteranceOf(i) = FragPERFORMANCE
    /\ messages[i].hasChart = TRUE
    /\ Len(messages[i].chartData.data) = 12

(***************************************************************************)
(* Runs of the chat in which a reply that is due is delivered and time     *)
(* does not stop: the event loop runs a timer callback once its delay has  *)
(* passed.                                                                 *)
(***************************************************************************)
FairSpec == Spec /\ WF_vars(TimerCallback) /\ WF_vars(Tick)

\* The places of the conversation, and who wrote what.
Places == 1..Len(messages)
UserPlaces == {i \in Places : messages[i].isUser}
AssistantPlaces == {i \in Places : ~messages[i].isUser}

(***************************************************************************)
(* C4.  The conversation starts with the greeting and holds one message    *)
(* per accepted submission and one per delivered reply: its length is      *)
(* 1 + accepted + delivered, so 2 * accepted + 1 whenever no reply is      *)
(* pending, with as many user messages as accepted submissions.            *)
(***************************************************************************)
C4_LengthAccounting ==
  /\ Len(messages) = 1 + accepted + delivered
  /\ (timers = << >> => Len(messages) = 2 * accepted + 1)
  /\ messages[1] = initialMessages[1]
  /\ Cardinality(UserPlaces) = accepted

C4_Witness ==
  /\ accepted = 2
  /\ timers = << >>
  /\ Len(messages) = 5

(***************************************************************************)
(* C5.  Submitting an input that is empty or only white space changes      *)
(* nothing: the conversation, the typing flag, the input value and the     *)
(* pending replies stay as they were.                                      *)
(***************************************************************************)
C5_BlankSubmitIsNoOp ==
  [][(HandleSendMessage /\ Trim(inputValue) = << >>)
       => (rejected' /\ UNCHANGED <<messages, inputValue, isTyping, timers>>)]_vars

\* White space was submitted while a reply was pending, and is still in the
\* box (an accepted submission empties it).
C5_Witness ==
  /\ rejected
  /\ inputValue = TypedBlank
  /\ Len(timers) = 1
  /\ isTyping = TRUE

(***************************************************************************)
(* C6, as stated.  Every assistant message answers exactly one preceding   *)
(* user message: the assistant messages can be matched one to one with     *)
(* user messages that come earlier in the conversation.                    *)
(***************************************************************************)
MatchedToEarlierUsers(assistants) ==
  \E f \in [assistants -> UserPlaces] :
    /\ \A i \in assistants : f[i] < i
    /\ \A i, j \in assistants : i # j => f[i] # f[j]

C6_EveryAssistantAnswers == MatchedToEarlierUsers(AssistantPlaces)

(***************************************************************************)
(* C6, amended.  The conversation starts with the greeting, which answers  *)
(* nothing; every other assistant message answers exactly one preceding    *)
(* user message: they can be matched one to one with user messages that    *)
(* come earlier in the conversation.                                       *)
(***************************************************************************)
C6_EveryReplyAnswers ==
  /\ messages[1] = initialMessages[1]
  /\ MatchedToEarlierUsers(AssistantPlaces \ {1})

C6_Witness ==
  /\ Cardinality(AssistantPlaces \ {1}) = 2
  /\ messages[2].isUser /\ messages[3].isUser

(***************************************************************************)
(* C7.  The conversation is append-only: every step leaves it as it was or *)
(* appends one message to it; no message is changed, moved or removed.     *)
(***************************************************************************)
C7_AppendOnly ==
  [][/\ Len(messages') \in {Len(messages), Len(messages) + 1}
     /\ SubSeq(messages', 1, Len(messages)) = messages]_vars

C7_Witness ==
  /\ Len(messages) = 2 * MaxSubmits + 1
  /\ timers = << >>

(***************************************************************************)
(* C8.  No two messages of the conversation have the same id.              *)
(***************************************************************************)
C8_UniqueIds ==
  \A i, j \in Places : i # j => messages[i].id # messages[j].id

(***************************************************************************)
(* C9.  At most one delayed reply is pending at any time.                  *)
(***************************************************************************)
C9_AtMostOnePending == Len(timers) <= 1

(***************************************************************************)
(* C10.  Every accepted submission is answered, once, by its own delayed   *)
(* callback and is never cancelled: a user message has either its one      *)
(* callback pending and no reply, or no callback pending and exactly one   *)
(* reply, which comes later in the conversation and is an assistant        *)
(* message; and a user message in the conversation is eventually replied   *)
(* to.                                                                     *)
(***************************************************************************)
PendingFor(i) == {k \in 1..Len(timers) : timers[k].request = i}
AnswersTo(i) == {k \in 1..Len(answers) : answers[k].request = i}

Answered(i) ==
  /\ i \in UserPlaces
  /\ PendingFor(i) = {}
  /\ \E k \in AnswersTo(i) :
       /\ AnswersTo(i) = {k}
       /\ answers[k].reply \in AssistantPlaces
       /\ answers[k].reply > i

Awaiting(i) ==
  /\ i \in UserPlaces
  /\ Cardinality(PendingFor(i)) = 1
  /\ AnswersTo(i) = {}

\* The user message of the n-th accepted submission has been answered.
AnsweredNth(n) ==
  \E i \in UserPlaces :
    /\ Cardinality({j \in UserPlaces : j <= i}) = n
    /\ Answered(i)

C10_EveryRequestAnswered ==
  /\ [](\A i \in UserPlaces : Awaiting(i) \/ Answered(i))
  /\ \A n \in 1..MaxSubmits : (accepted >= n) ~> AnsweredNth(n)

\* Two submissions overlapped and both have been answered.
C10_Witness ==
  /\ Len(messages) = 5
  /\ messages[2].isUser /\ messages[3].isUser
  /\ Answered(2) /\ Answered(3)

(***************************************************************************)
(* C11.  The typing flag is true exactly while a delayed reply is pending. *)
(***************************************************************************)
C11_TypingIffPending == isTyping <=> (timers # << >>)

(***************************************************************************)
(* C12.  Replies come in submission order and classify the text that was   *)
(* submitted: for every k, the k-th assistant message after the greeting   *)
(* is the reply to the content of the k-th user message and comes after    *)
(* that user message in the conversation; there are never more replies     *)
(* than user messages.                                                     *)
(***************************************************************************)
\* The k-th place of a set of places.
NthPlace(places, k) ==
  CHOOSE i \in places : Cardinality({j \in places : j <= i}) = k

\* Message m is the reply the keyword rules give to utterance u.
IsReplyTo(u, m) ==
  IF MentionsPerformance(u)
    THEN IsPerformanceReply(m) /\ m.chartData = LineChartData
  ELSE IF MentionsAllocation(u)
    THEN IsAllocationReply(m) /\ m.chartData = PieChartData
  ELSE IF MentionsRetirement(u) THEN IsRetirementReply(m)
  ELSE IsFallbackReply(m)

C12_RepliesInSubmissionOrder ==
  /\ Cardinality(AssistantPlaces \ {1}) <= Cardinality(UserPlaces)
  /\ \A k \in 1..Cardinality(AssistantPlaces \ {1}) :
       LET a == NthPlace(AssistantPlaces \ {1}, k)
           u == NthPlace(UserPlaces, k)
       IN  /\ u < a
           /\ IsReplyTo(messages[u].content, messages[a])

\* Two submissions of different texts overlapped and both were answered:
\* the conversation reads greeting, user, user, assistant, assistant.
C12_Witness ==
  /\ Len(messages) = 5
  /\ messages[2].isUser /\ messages[3].isUser
  /\ ~messages[4].isUser /\ ~messages[5].isUser
  /\ messages[2].content = QuickRetirement
  /\ messages[3].content = QuickPortfolio
  /\ IsRetirementReply(messages[4])
  /\ IsPerformanceReply(messages[5])

====
